---------------------------- MODULE Spec2Model ----------------------------
(***************************************************************************)
(* Model of the 2D SPH core of the repository: eng/particle_system.py      *)
(* (ParticleSystem: particle store, uniform grid, neighbour search) and    *)
(* eng/sph_solver.py (SPHSolver: cal_L, enforce_boundary, step).           *)
(*                                                                         *)
(* Numbers.  Lengths are integers.  One length unit is                     *)
(* particle_radius / (5 * PosUnit); with the driver's radius of 0.002 m    *)
(* (draft1.py:15) and PosUnit = 100 a unit is 4e-6 m.  Every input length  *)
(* is a multiple of PosUnit = 10^MaxSteps, so the factor 1 + c_f = 1.7 of  *)
(* simulate_collisions is applied exactly for MaxSteps steps.  Arithmetic  *)
(* is that of the reals: binary rounding of the floats is not modelled.    *)
(* Velocities are integers, 1 m/s = PosUnit.                               *)
(*                                                                         *)
(* Particle indices are those of the code, 0 .. particle_num - 1; the      *)
(* per-particle fields are sequences, field[p] of the code is F[p + 1].    *)
(***************************************************************************)
EXTENDS Integers, Sequences, FiniteSets, TLC

VARIABLES
    particle_num,            \* ps.particle_num[None]
    x,                       \* ps.x             position of each particle
    u,                       \* ps.u             velocity of each particle
    material,                \* ps.material
    density,                 \* ps.density
    particle_neighbors_num,  \* ps.particle_neighbors_num
    particle_neighbors,      \* ps.particle_neighbors: the slots written since
                             \* the last fill(-1); every later slot holds -1
    grid_particles_num,      \* ps.grid_particles_num, per cell
    grid_particles,          \* ps.grid_particles, per cell: the slots written
                             \* so far (never cleared); later slots hold 0
    TDmethod,                \* solver.TDmethod
    pc,                      \* the pass that runs next, "idle" between calls
    caller,                  \* the call in progress: add_cube or step
    done,                    \* the passes completed by the call in progress
    err,                     \* "capacity" after add_cube's assert failed
    crashed,                 \* the bounds assertion that ended the run
    build,                   \* "release" once an out-of-range access went by
    call,                    \* the arguments of the last add_cube call
    cubes,                   \* number of add_cube calls made
    steps,                   \* number of step calls made
    xver,                    \* bumped whenever x or particle_num changes
    grid_xver,               \* xver at the last completed scatter
    ns_xver,                 \* xver at the last completed neighbour search
    L_xver,                  \* xver when cal_L last read positions
    prev_num,                \* the counts the last fill(0) erased
    prev_xver,               \* grid_xver when they were erased
    qpos,                    \* pos_to_index query: the position
    qcell,                   \* pos_to_index query: the result, <<>> before it
    sc_next,                 \* scatter, per thread: the particle of its iteration
    sc_last,                 \* scatter, per thread: the last particle of its range
    sc_pc,                   \* scatter, per thread: "fetch", "store" or "done"
    sc_off                   \* scatter, per thread: the offset atomic_add returned

vars == <<particle_num, x, u, material, density, particle_neighbors_num,
          particle_neighbors, grid_particles_num, grid_particles, TDmethod,
          pc, caller, done, err, crashed, build, call, cubes, steps, xver,
          grid_xver, ns_xver, L_xver, prev_num, prev_xver, qpos, qcell,
          sc_next, sc_last, sc_pc, sc_off>>

-----------------------------------------------------------------------------
(* Bounds of the model *)

MaxCubes == 1
MaxSteps == 2
WorldXR == 6
WorldYR == 30
ScatterTail == 3
ScatterRace == 3

RECURSIVE Pow10(_)
Pow10(n) == IF n = 0 THEN 1 ELSE 10 * Pow10(n - 1)

PosUnit == Pow10(MaxSteps)

-----------------------------------------------------------------------------
(* ParticleSystem.__init__: constants *)

dim == 2
material_fluid == 1
material_soil == 2
material_dummy == 10
material_repulsive == 11

particle_radius == 5 * PosUnit
particle_diameter == 2 * particle_radius
kappa == 2
kh_tenths == 12
support_radius == (kappa * kh_tenths * particle_diameter) \div 10
particle_max_num == 65536
particle_max_num_per_cell == 100
particle_max_num_neighbors == 100

world == <<WorldXR * particle_radius, WorldYR * particle_radius>>

CeilDiv(a, b) == (a + b - 1) \div b

grid_size == CeilDiv(kappa * kh_tenths, 10) * particle_diameter
bound == << <<-grid_size, -grid_size>>,
            <<world[1] + grid_size, world[2] + grid_size>> >>
range == <<bound[2][1] - bound[1][1], bound[2][2] - bound[1][2]>>
grid_num == <<CeilDiv(range[1], grid_size), CeilDiv(range[2], grid_size)>>

Cells == (0 .. grid_num[1] - 1) \X (0 .. grid_num[2] - 1)


-----------------------------------------------------------------------------
(* Uniform grid *)

Abs(a) == IF a < 0 THEN -a ELSE a
Min(a, b) == IF a < b THEN a ELSE b
Max(a, b) == IF a < b THEN b ELSE a

\* .cast(int) of a real quotient a / b (b > 0): truncation toward zero.
CastInt(a, b) == IF a >= 0 THEN a \div b ELSE -((-a) \div b)

pos_to_index(pos) ==
    << CastInt(pos[1] - bound[1][1], grid_size),
       CastInt(pos[2] - bound[1][2], grid_size) >>

is_valid_cell(cell) ==
    /\ 0 <= cell[1] /\ cell[1] < grid_num[1]
    /\ 0 <= cell[2] /\ cell[2] < grid_num[2]

\* Slot j (1-based) of a field row of which only the prefix s was written.
Slot(s, j, blank) == IF j <= Len(s) THEN s[j] ELSE blank

\* Row s after the values w were stored at the 0-based offsets
\* off, off + 1, ...; a store at an offset >= cap is outside the row.
Store(s, off, w, cap, blank) ==
    LET n == Min(Len(w), Max(0, cap - off))
        m == IF n = 0 THEN Len(s) ELSE Max(Len(s), off + n)
    IN  [j \in 1 .. m |->
            IF j > off /\ j <= off + n THEN w[j - off] ELSE Slot(s, j, blank)]

\* The order in which the iterations of a parallel particle loop reach a
\* shared cell counter: Taichi's CPU backend gives no order.
Schedules == {"ascending", "descending"}

Arrival(sched, n) ==
    [k \in 1 .. n |-> IF sched = "ascending" THEN k - 1 ELSE n - k]

\* One iteration of allocate_particles_to_grid's loop, for particle p; g
\* holds the counts, the slots and whether an access fell outside the grid
\* (bad_cell) or outside a cell's slots (bad_slot).
allocate_one(p, X, g) ==
    LET cell == pos_to_index(X[p + 1])
        offset == g.num[cell]               \* ti.atomic_add(..., 1)
    IN  IF ~is_valid_cell(cell) THEN [g EXCEPT !.bad_cell = TRUE]
        ELSE [ num |-> [g.num EXCEPT ![cell] = offset + 1],
               parts |-> [g.parts EXCEPT ![cell] =
                            Store(@, offset, <<p>>,
                                  particle_max_num_per_cell, 0)],
               bad_cell |-> g.bad_cell,
               bad_slot |-> g.bad_slot
                            \/ offset >= particle_max_num_per_cell ]

\* Iterations order[lo], ..., order[hi] of the loop, one after the other
\* (evaluated by halves, which keeps the evaluation shallow).
RECURSIVE allocate_loop(_, _, _, _, _)
allocate_loop(order, lo, hi, X, g) ==
    IF lo > hi THEN g
    ELSE IF lo = hi THEN allocate_one(order[lo], X, g)
    ELSE LET mid == (lo + hi) \div 2
             first == allocate_loop(order, lo, mid, X, g)
         IN  IF first.bad_cell \in BOOLEAN   \* first is evaluated here
             THEN allocate_loop(order, mid + 1, hi, X, first)
             ELSE first

allocate_particles_to_grid(sched, n, X, num, parts) ==
    allocate_loop(Arrival(sched, n), 1, n, X,
        [num |-> num, parts |-> parts, bad_cell |-> FALSE, bad_slot |-> FALSE])

\* ti.grouped(ti.ndrange((-1, 2), (-1, 2))): the first axis varies slowest.
Offsets == << <<-1, -1>>, <<-1, 0>>, <<-1, 1>>,
              << 0, -1>>, << 0, 0>>, << 0, 1>>,
              << 1, -1>>, << 1, 0>>, << 1, 1>> >>

\* (x_i - x_j).norm() < support_radius, on the squares; the per-axis test
\* comes first only to keep the squares small.
InSupport(a, b) ==
    LET dx == a[1] - b[1]
        dy == a[2] - b[2]
    IN  /\ Abs(dx) < support_radius
        /\ Abs(dy) < support_radius
        /\ dx * dx + dy * dy < support_radius * support_radius

IsNeighborNoSelfTest(X, p_i, p_j) == InSupport(X[p_i + 1], X[p_j + 1])

\* p_i != p_j and distance < self.support_radius
IsNeighbor(X, p_i, p_j) == p_i /= p_j /\ InSupport(X[p_i + 1], X[p_j + 1])

\* What the loop "for j in range(grid_particles_num[cell])" reads from
\* grid_particles[cell, j]: the slots written, 0 in a slot never written,
\* and the value garbage where j >= particle_max_num_per_cell, which is
\* outside the cell's slots.
CellRead(num, parts, cell, garbage) ==
    LET inside == Min(num[cell], particle_max_num_per_cell)
        written == Min(inside, Len(parts[cell]))
    IN  SubSeq(parts[cell], 1, written)
        \o [j \in 1 .. inside - written |-> 0]
        \o [j \in 1 .. num[cell] - inside |-> garbage]

\* The candidates p_j that particle p_i appends, in order: the cnt test is
\* made once per stencil cell, before the cell's particles are scanned.
RECURSIVE VisitCells(_, _, _, _, _, _, _)
VisitCells(X, num, parts, garbage, p_i, k, found) ==
    IF k > Len(Offsets) \/ Len(found) >= particle_max_num_neighbors
    THEN found
    ELSE LET center_cell == pos_to_index(X[p_i + 1])
             cell == <<center_cell[1] + Offsets[k][1],
                       center_cell[2] + Offsets[k][2]>>
         IN  IF ~is_valid_cell(cell)
             THEN VisitCells(X, num, parts, garbage, p_i, k + 1, found)
             ELSE VisitCells(X, num, parts, garbage, p_i, k + 1,
                      found \o SelectSeq(CellRead(num, parts, cell, garbage),
                                         LAMBDA p_j : IsNeighbor(X, p_i, p_j)))

\* "Skip rangeary particles"
SkipsSearch(mat) == mat = material_dummy

\* The lists of candidates of particles lo-1 .. hi-1, none for a skipped
\* particle (evaluated by halves, which keeps the evaluation shallow).
RECURSIVE search_loop(_, _, _, _, _, _, _)
search_loop(lo, hi, X, mat, num, parts, garbage) ==
    IF lo > hi THEN <<>>
    ELSE IF lo = hi
    THEN << IF SkipsSearch(mat[lo]) THEN <<>>
            ELSE VisitCells(X, num, parts, garbage, lo - 1, 1, <<>>) >>
    ELSE LET mid == (lo + hi) \div 2
         IN  search_loop(lo, mid, X, mat, num, parts, garbage)
             \o search_loop(mid + 1, hi, X, mat, num, parts, garbage)

\* search_neighbors over particles 0 .. n-1: particle p_i stores candidate
\* number cnt at particle_neighbors[p_i, cnt], then cnt in
\* particle_neighbors_num[p_i]; a skipped particle stores nothing.
search_neighbors(n, X, mat, num, parts, nnum, nbrs, garbage) ==
    LET found == search_loop(1, n, X, mat, num, parts, garbage)
    IN  [ nnum |-> [p \in 1 .. n |->
                      IF SkipsSearch(mat[p]) THEN nnum[p] ELSE Len(found[p])],
          nbrs |-> [p \in 1 .. n |->
                      IF SkipsSearch(mat[p]) THEN nbrs[p]
                      ELSE Store(nbrs[p], 0, found[p],
                                 particle_max_num_neighbors, -1)],
          bad_slot |-> \E p \in 1 .. n :
                          Len(found[p]) > particle_max_num_neighbors ]

-----------------------------------------------------------------------------
(* Particle store: add_cube, add_particles *)

\* The 1e-5 (metres) that add_cube adds to the end of each axis, in half
\* units: a unit is 0.0004 / PosUnit m.
ArangeEps2 == PosUnit \div 20

\* np.arange(start, stop, step)
arange_without_slack(start, stop, step) ==
    LET n == IF stop <= start THEN 0 ELSE CeilDiv(stop - start, step)
    IN  [k \in 1 .. n |-> start + (k - 1) * step]

\* np.arange(start, stop + 1e-5, step): start + k * step for k = 0, 1, ...
\* while strictly below stop + 1e-5.
arange(start, stop, step) ==
    LET span2 == 2 * stop + ArangeEps2 - 2 * start
        n == IF span2 <= 0 THEN 0 ELSE CeilDiv(span2, 2 * step)
    IN  [k \in 1 .. n |-> start + (k - 1) * step]

\* num_dim of add_cube; offset 0 stands for offset=None.
num_dim(lower_corner, cube_size, offset) ==
    LET range_offset == IF offset = 0 THEN particle_diameter ELSE offset
    IN  [i \in 1 .. dim |->
            arange(lower_corner[i] + particle_radius,
                   lower_corner[i] + cube_size[i], range_offset)]

num_new_particles_first_axis(nd) == Len(nd[1])

\* reduce(lambda x, y: x * y, [len(n) for n in num_dim])
num_new_particles(nd) == Len(nd[1]) * Len(nd[2])

\* Row new_p (0-based) of new_positions: meshgrid with indexing 'ij',
\* reshaped and transposed, so the first axis varies slowest.
new_positions(nd, new_p) ==
    << nd[1][(new_p \div Len(nd[2])) + 1], nd[2][(new_p % Len(nd[2])) + 1] >>

\* assert self.particle_num[None] + num_new_particles <= self.particle_max_num
capacity_ok(pnum, n) == pnum + n <= particle_max_num

\* add_particles: field F with the n new values written at the indices
\* particle_num, ..., particle_num + n - 1 (value[new_p], new_p 0-based).
add_particles(F, n, value) == F \o [k \in 1 .. n |-> value[k - 1]]

\* gen_rangeary_particles: the four add_cube calls of the constructor, as
\* (lower_corner, cube_size) pairs: bottom, top, left, right.
rangeary_cubes ==
    LET b0 == bound[1]
        b1 == bound[2]
        box(dl, tr) == [lower_corner |-> dl,
                        cube_size |-> <<tr[1] - dl[1], tr[2] - dl[2]>>]
    IN  << box(b0, <<b1[1], 0>>),
           box(<<b0[1], b1[2] - grid_size>>, b1),
           box(<<b0[1], 0>>, <<0, b1[2] - grid_size>>),
           box(<<b1[1] - grid_size, 0>>, <<b1[1], b1[2] - grid_size>>) >>

\* Positions of the dummy particles the constructor creates, in index order.
RECURSIVE rangeary_positions(_)
rangeary_positions(k) ==
    IF k = 0 THEN <<>>
    ELSE LET nd == num_dim(rangeary_cubes[k].lower_corner,
                           rangeary_cubes[k].cube_size, particle_diameter)
             n == num_new_particles(nd)
         IN  add_particles(rangeary_positions(k - 1), n,
                           [new_p \in 0 .. n - 1 |-> new_positions(nd, new_p)])

-----------------------------------------------------------------------------
(* Boundary treatment *)

c_f_tenths == 7

AmplifiedPlusOne(a) == ((20 + c_f_tenths) * a) \div 10

\* (1.0 + c_f) * a
Amplified(a) == ((10 + c_f_tenths) * a) \div 10

\* simulate_collisions on a particle's position and velocity s = [x, u].
simulate_collisions(s, vec, d) ==
    LET dot == s.u[1] * vec[1] + s.u[2] * vec[2]
    IN  [ x |-> << s.x[1] + Amplified(vec[1] * d),
                   s.x[2] + Amplified(vec[2] * d) >>,
          u |-> << s.u[1] - Amplified(dot) * vec[1],
                   s.u[2] - Amplified(dot) * vec[2] >> ]

\* The body of enforce_boundary's loop for one particle: pos is read once,
\* the four tests use it, every correction updates the stored x and u.
enforce_one(xp, up, mat) ==
    LET pos == xp
        s0 == [x |-> xp, u |-> up]
        s1 == IF pos[1] < 0
              THEN simulate_collisions(s0, << 1, 0>>, -pos[1]) ELSE s0
        s2 == IF pos[1] > world[1]
              THEN simulate_collisions(s1, <<-1, 0>>, pos[1] - world[1]) ELSE s1
        s3 == IF pos[2] > world[2]
              THEN simulate_collisions(s2, <<0, -1>>, pos[2] - world[2]) ELSE s2
        s4 == IF pos[2] < 0
              THEN simulate_collisions(s3, <<0, 1>>, -pos[2]) ELSE s3
    IN  IF mat < 10 THEN s4 ELSE s0

enforce_boundary(n, X, U, mat) ==
    LET after == [p \in 1 .. n |-> enforce_one(X[p], U[p], mat[p])]
    IN  [ x |-> [p \in 1 .. n |-> after[p].x],
          u |-> [p \in 1 .. n |-> after[p].u] ]

-----------------------------------------------------------------------------
(* Control: the order of the passes *)

\* initialize_particle_system: fill, fill, scatter, search.
initialize_order(pass) ==
    CASE pass = "grid_fill"      -> "neighbors_fill"
      [] pass = "neighbors_fill" -> "allocate"
      [] pass = "allocate"       -> "search"
      [] OTHER                   -> "return"

step_order_boundary_first(pass, td) ==
    CASE pass = "search"  -> "enforce"
      [] pass = "enforce" -> "cal_L"
      [] pass = "cal_L"   -> IF td = 1 THEN "substep" ELSE "idle"
      [] OTHER            -> "idle"

\* step: initialize_particle_system (which ends with the search), cal_L,
\* the substep when TDmethod is 1, enforce_boundary.
step_order(pass, td) ==
    CASE pass = "search"  -> "cal_L"
      [] pass = "cal_L"   -> IF td = 1 THEN "substep" ELSE "enforce"
      [] pass = "substep" -> "enforce"
      [] OTHER            -> "idle"

\* The pass that follows pass in the call callr (add_cube ends with
\* initialize_particle_system).
Successor(pass, callr, td) ==
    IF initialize_order(pass) /= "return" THEN initialize_order(pass)
    ELSE IF callr = "step" THEN step_order(pass, td)
    ELSE "idle"

-----------------------------------------------------------------------------
(* Inputs *)

\* add_cube calls the driver may make; lengths in units; velocity <<>> and
\* offset 0 stand for the default None.
Cube(lc, size, mat, vel, off) ==
    [lower_corner |-> lc, cube_size |-> size, material |-> mat,
     velocity |-> vel, density |-> 1000, offset |-> off]

Scenes ==
    { \* one fluid particle at [0.002, 0.002]
      Cube(<<0, 0>>, <<25 * PosUnit, 25 * PosUnit>>, material_fluid,
           <<>>, 25 * PosUnit),
      \* the same spacing, the box ending just short of the second sample
      Cube(<<0, 0>>, <<30 * PosUnit - 1, 30 * PosUnit - 1>>, material_fluid,
           <<>>, 25 * PosUnit),
      \* one fluid particle at [-0.001, 0.05] moving left at 1 m/s
      Cube(<<-((15 * PosUnit) \div 2), 120 * PosUnit>>,
           <<5 * PosUnit, 5 * PosUnit>>, material_fluid,
           <<-PosUnit, 0>>, 0),
      \* 11 x 11 dummy particles, spacing a fifth of the radius, one cell
      Cube(<<0, 0>>, <<15 * PosUnit, 15 * PosUnit>>, material_dummy,
           <<>>, PosUnit),
      \* 11 x 11 soil particles astride the right wall, two cells
      Cube(<<19 * PosUnit, 0>>, <<15 * PosUnit, 15 * PosUnit>>,
           material_soil, <<PosUnit, PosUnit>>, PosUnit),
      \* two repulsive particles
      Cube(<<0, 0>>, <<15 * PosUnit, 5 * PosUnit>>, material_repulsive,
           <<>>, 0),
      \* one fluid particle left of the padding, moving left
      Cube(<<-70 * PosUnit, 0>>, <<5 * PosUnit, 5 * PosUnit>>,
           material_fluid, <<-PosUnit, 0>>, 0),
      \* two fluid particles, one on each side of the upper end of the grid
      Cube(<<0, bound[1][2] + grid_num[2] * grid_size - 2 * particle_radius>>,
           <<particle_radius, 3 * particle_radius>>, material_fluid, <<>>, 0),
      \* one fluid particle further left of the wall than 1 / c_f times the
      \* width of the world, moving left
      Cube(<<-55 * PosUnit, 0>>, <<5 * PosUnit, 5 * PosUnit>>,
           material_fluid, <<-PosUnit, 0>>, 0),
      \* 256 x 256 particles: as many as the store holds
      Cube(<<0, 0>>, <<260 * PosUnit, 260 * PosUnit>>, material_fluid,
           <<>>, PosUnit) }

TDmethods == {1, 2}

\* The threads that share the range of a parallel loop.
Threads == {1, 2}

\* Positions pos_to_index is queried at: every half cell from two cells
\* below the padded domain to two cells above it.
QAxis(i) ==
    { bound[1][i] + k * (grid_size \div 2) :
        k \in -4 .. 2 * grid_num[i] + 4 }

QPositions == QAxis(1) \X QAxis(2)

-----------------------------------------------------------------------------
(* The state after ParticleSystem(world, radius) and SPHSolver(...) *)

InitWith(td, sched, qp) ==
    LET X == rangeary_positions(Len(rangeary_cubes))
        n == Len(X)
        g == allocate_particles_to_grid(sched, n, X,
                 [c \in Cells |-> 0], [c \in Cells |-> <<>>])
        last == rangeary_cubes[Len(rangeary_cubes)]
    IN  /\ particle_num = n
        /\ x = X
        /\ u = [p \in 1 .. n |-> <<0, 0>>]
        /\ material = [p \in 1 .. n |-> material_dummy]
        /\ density = [p \in 1 .. n |-> 0]
        /\ particle_neighbors_num = [p \in 1 .. n |-> 0]
        /\ particle_neighbors = [p \in 1 .. n |-> <<>>]
        /\ grid_particles_num = g.num
        /\ grid_particles = g.parts
        /\ TDmethod = td
        /\ pc = "idle"
        /\ caller = "add_cube"
        /\ done = <<"grid_fill", "neighbors_fill", "allocate", "search">>
        /\ err = "none"
        /\ crashed = "no"
        /\ build = "unknown"
        /\ call = [lower_corner |-> last.lower_corner,
                   cube_size |-> last.cube_size,
                   material |-> material_dummy, velocity |-> <<>>,
                   density |-> 0, offset |-> particle_diameter]
        /\ cubes = 0
        /\ steps = 0
        /\ xver = 0
        /\ grid_xver = 0
        /\ ns_xver = 0
        /\ L_xver = -1
        /\ prev_num = [c \in Cells |-> 0]
        /\ prev_xver = -1
        /\ qpos = qp
        /\ qcell = <<>>
        /\ sc_next = [t \in Threads |-> 0]
        /\ sc_last = [t \in Threads |-> -1]
        /\ sc_pc = [t \in Threads |-> "done"]
        /\ sc_off = [t \in Threads |-> 0]

Init == \E td \in TDmethods : InitWith(td, "ascending", <<0, 0>>)

-----------------------------------------------------------------------------
(* Actions *)

particle_vars == <<particle_num, x, u, material, density>>
neighbor_vars == <<particle_neighbors_num, particle_neighbors>>
grid_vars == <<grid_particles_num, grid_particles>>
query_vars == <<qpos, qcell>>
prev_vars == <<prev_num, prev_xver>>
scatter_vars == <<sc_next, sc_last, sc_pc, sc_off>>

Running == crashed = "no"

\* An access outside a field's extent.  With ti.init(debug=True) (draft1.py)
\* the bounds assertion ends the run; without it the access goes by: a store
\* changes no element of the field, a load yields an unspecified value.
\* The build is one or the other for the whole run.
OutOfRange(reason, goes_by) ==
    \/ /\ build = "unknown"
       /\ crashed' = reason
       /\ pc' = pc
       /\ UNCHANGED <<particle_vars, neighbor_vars, grid_vars, done, build,
                      xver, grid_xver, ns_xver, L_xver>>
    \/ /\ build' = "release"
       /\ crashed' = crashed
       /\ goes_by

\* add_cube(lower_corner, cube_size, material, velocity, density, offset) up
\* to its call of initialize_particle_system, whose passes follow.
AddCube ==
    /\ Running /\ pc = "idle" /\ cubes < MaxCubes
    /\ \E sc \in Scenes :
         LET nd == num_dim(sc.lower_corner, sc.cube_size, sc.offset)
             n == num_new_particles(nd)
             vel == IF sc.velocity = <<>> THEN <<0, 0>> ELSE sc.velocity
         IN  /\ call' = sc
             /\ cubes' = cubes + 1
             /\ IF ~capacity_ok(particle_num, n)
                THEN /\ err' = "capacity"
                     /\ UNCHANGED <<particle_vars, neighbor_vars, pc, caller,
                                    done, xver>>
                ELSE /\ err' = "none"
                     /\ x' = add_particles(x, n,
                               [new_p \in 0 .. n - 1 |-> new_positions(nd, new_p)])
                     /\ u' = add_particles(u, n, [new_p \in 0 .. n - 1 |-> vel])
                     /\ material' = add_particles(material, n,
                               [new_p \in 0 .. n - 1 |-> sc.material])
                     /\ density' = add_particles(density, n,
                               [new_p \in 0 .. n - 1 |-> sc.density])
                     /\ particle_num' = particle_num + n
                     /\ particle_neighbors_num' =
                            particle_neighbors_num \o [k \in 1 .. n |-> 0]
                     /\ particle_neighbors' =
                            particle_neighbors \o [k \in 1 .. n |-> <<>>]
                     /\ xver' = xver + 1
                     /\ pc' = "grid_fill"
                     /\ caller' = "add_cube"
                     /\ done' = <<>>
    /\ UNCHANGED <<grid_vars, TDmethod, crashed, build, steps, grid_xver,
                   ns_xver, L_xver, prev_vars, query_vars, scatter_vars>>

\* step() is called: its first pass is initialize_particle_system's.
Step ==
    /\ Running /\ pc = "idle" /\ steps < MaxSteps
    /\ steps' = steps + 1
    /\ pc' = "grid_fill"
    /\ caller' = "step"
    /\ done' = <<>>
    /\ err' = "none"
    /\ UNCHANGED <<particle_vars, neighbor_vars, grid_vars, TDmethod, crashed,
                   build, call, cubes, xver, grid_xver, ns_xver, L_xver,
                   prev_vars, query_vars, scatter_vars>>

\* self.grid_particles_num.fill(0)
GridFill ==
    /\ Running /\ pc = "grid_fill"
    /\ prev_num' = grid_particles_num
    /\ prev_xver' = grid_xver
    /\ grid_particles_num' = [c \in Cells |-> 0]
    /\ pc' = Successor("grid_fill", caller, TDmethod)
    /\ done' = Append(done, "grid_fill")
    /\ UNCHANGED <<particle_vars, neighbor_vars, grid_particles, TDmethod,
                   caller, err, crashed, build, call, cubes, steps, xver,
                   grid_xver, ns_xver, L_xver, query_vars, scatter_vars>>

\* self.particle_neighbors.fill(-1)
NeighborsFill ==
    /\ Running /\ pc = "neighbors_fill"
    /\ particle_neighbors' = [p \in 1 .. particle_num |-> <<>>]
    /\ pc' = Successor("neighbors_fill", caller, TDmethod)
    /\ done' = Append(done, "neighbors_fill")
    /\ UNCHANGED <<particle_vars, particle_neighbors_num, grid_vars, TDmethod,
                   caller, err, crashed, build, call, cubes, steps, xver,
                   grid_xver, ns_xver, L_xver, prev_vars, query_vars,
                   scatter_vars>>

\* self.allocate_particles_to_grid()
Allocate ==
    /\ Running /\ pc = "allocate"
    /\ \E sched \in Schedules :
         LET r == allocate_particles_to_grid(sched, particle_num, x,
                      grid_particles_num, grid_particles)
             completes ==
                 /\ grid_particles_num' = r.num
                 /\ grid_particles' = r.parts
                 /\ grid_xver' = xver
                 /\ pc' = Successor("allocate", caller, TDmethod)
                 /\ done' = Append(done, "allocate")
                 /\ UNCHANGED <<particle_vars, neighbor_vars, xver, ns_xver,
                                L_xver>>
         IN  IF r.bad_cell THEN OutOfRange("grid_index", completes)
             ELSE IF r.bad_slot THEN OutOfRange("cell_slot", completes)
             ELSE completes /\ UNCHANGED <<crashed, build>>
    /\ UNCHANGED <<TDmethod, caller, err, call, cubes, steps, prev_vars,
                   query_vars, scatter_vars>>

\* self.search_neighbors()
Search ==
    /\ Running /\ pc = "search"
    /\ LET bad_read == \E c \in Cells :
                          grid_particles_num[c] > particle_max_num_per_cell
       IN  \E garbage \in (IF bad_read THEN {0, particle_num - 1} ELSE {0}) :
             LET r == search_neighbors(particle_num, x, material,
                          grid_particles_num, grid_particles,
                          particle_neighbors_num, particle_neighbors, garbage)
                 completes ==
                     /\ particle_neighbors_num' = r.nnum
                     /\ particle_neighbors' = r.nbrs
                     /\ ns_xver' = xver
                     /\ pc' = Successor("search", caller, TDmethod)
                     /\ done' = Append(done, "search")
                     /\ UNCHANGED <<particle_vars, grid_vars, xver, grid_xver,
                                    L_xver>>
             IN  IF r.bad_slot THEN OutOfRange("neighbor_slot", completes)
                 ELSE completes /\ UNCHANGED <<crashed, build>>
    /\ UNCHANGED <<TDmethod, caller, err, call, cubes, steps, prev_vars,
                   query_vars, scatter_vars>>

\* self.cal_L(): reads x and the neighbour lists, writes only ps.L, which
\* the model does not hold; what is kept is which positions it read.
CalL ==
    /\ Running /\ pc = "cal_L"
    /\ L_xver' = xver
    /\ pc' = Successor("cal_L", caller, TDmethod)
    /\ done' = Append(done, "cal_L")
    /\ UNCHANGED <<particle_vars, neighbor_vars, grid_vars, TDmethod, caller,
                   err, crashed, build, call, cubes, steps, xver, grid_xver,
                   ns_xver, prev_vars, query_vars, scatter_vars>>

\* self.substep_SympEuler(): pass
Substep ==
    /\ Running /\ pc = "substep"
    /\ pc' = Successor("substep", caller, TDmethod)
    /\ done' = Append(done, "substep")
    /\ UNCHANGED <<particle_vars, neighbor_vars, grid_vars, TDmethod, caller,
                   err, crashed, build, call, cubes, steps, xver, grid_xver,
                   ns_xver, L_xver, prev_vars, query_vars, scatter_vars>>

\* self.enforce_boundary()
EnforceBoundary ==
    /\ Running /\ pc = "enforce"
    /\ LET r == enforce_boundary(particle_num, x, u, material)
       IN  /\ x' = r.x
           /\ u' = r.u
           /\ xver' = IF r.x /= x THEN xver + 1 ELSE xver
    /\ pc' = Successor("enforce", caller, TDmethod)
    /\ done' = Append(done, "enforce")
    /\ UNCHANGED <<particle_num, material, density, neighbor_vars, grid_vars,
                   TDmethod, caller, err, crashed, build, call, cubes, steps,
                   grid_xver, ns_xver, L_xver, prev_vars, query_vars,
                   scatter_vars>>

Next ==
    \/ AddCube
    \/ Step
    \/ GridFill
    \/ NeighborsFill
    \/ Allocate
    \/ Search
    \/ CalL
    \/ Substep
    \/ EnforceBoundary

Spec == Init /\ [][Next]_vars

-----------------------------------------------------------------------------
(* pos_to_index as a function of its argument *)

InitCell == \E qp \in QPositions : InitWith(1, "ascending", qp)

PosToIndexCall ==
    /\ qcell = <<>>
    /\ qcell' = pos_to_index(qpos)
    /\ UNCHANGED <<particle_vars, neighbor_vars, grid_vars, TDmethod, pc,
                   caller, done, err, crashed, build, call, cubes, steps,
                   xver, grid_xver, ns_xver, L_xver, prev_vars, qpos,
                   scatter_vars>>

NextCell == PosToIndexCall

SpecCell == InitCell /\ [][NextCell]_vars

-----------------------------------------------------------------------------
(* allocate_particles_to_grid, iteration by iteration: the loop runs on     *)
(* several threads, each taking a range of particles; an iteration is the   *)
(* atomic_add on the cell's count and then the store into the slot.         *)

\* The state when allocate_particles_to_grid starts in the
\* initialize_particle_system of add_cube(sc): the counts are cleared, the
\* slots hold what the constructor's rebuild wrote; the last ScatterTail
\* particles are the range of thread 2, the others that of thread 1.  Of
\* the interleavings, those are followed in which thread 1 runs all but its
\* last ScatterRace iterations without thread 2 being scheduled in between.
InitScatter ==
    \E sc \in Scenes :
        LET X0 == rangeary_positions(Len(rangeary_cubes))
            n0 == Len(X0)
            g0 == allocate_particles_to_grid("ascending", n0, X0,
                      [c \in Cells |-> 0], [c \in Cells |-> <<>>])
            nd == num_dim(sc.lower_corner, sc.cube_size, sc.offset)
            n == num_new_particles(nd)
            vel == IF sc.velocity = <<>> THEN <<0, 0>> ELSE sc.velocity
        IN  /\ capacity_ok(n0, n)
            /\ particle_num = n0 + n
            /\ x = add_particles(X0, n,
                       [new_p \in 0 .. n - 1 |-> new_positions(nd, new_p)])
            /\ u = add_particles([p \in 1 .. n0 |-> <<0, 0>>], n,
                       [new_p \in 0 .. n - 1 |-> vel])
            /\ material = add_particles([p \in 1 .. n0 |-> material_dummy], n,
                       [new_p \in 0 .. n - 1 |-> sc.material])
            /\ density = add_particles([p \in 1 .. n0 |-> 0], n,
                       [new_p \in 0 .. n - 1 |-> sc.density])
            /\ particle_neighbors_num = [p \in 1 .. n0 + n |-> 0]
            /\ particle_neighbors = [p \in 1 .. n0 + n |-> <<>>]
            /\ grid_particles_num = [c \in Cells |-> 0]
            /\ grid_particles = g0.parts
            /\ TDmethod = 1
            /\ pc = "allocate"
            /\ caller = "add_cube"
            /\ done = <<"grid_fill", "neighbors_fill">>
            /\ err = "none"
            /\ crashed = "no"
            /\ build = "unknown"
            /\ call = sc
            /\ cubes = 1
            /\ steps = 0
            /\ xver = 1
            /\ grid_xver = 0
            /\ ns_xver = 0
            /\ L_xver = -1
            /\ prev_num = g0.num
            /\ prev_xver = 0
            /\ qpos = <<0, 0>>
            /\ qcell = <<>>
            /\ sc_next = [t \in Threads |->
                            IF t = 1 THEN 0 ELSE n0 + n - ScatterTail]
            /\ sc_last = [t \in Threads |->
                            IF t = 1 THEN n0 + n - ScatterTail - 1
                            ELSE n0 + n - 1]
            /\ sc_pc = [t \in Threads |-> "fetch"]
            /\ sc_off = [t \in Threads |-> 0]

\* What a scatter step leaves alone.
ScatterFrame ==
    UNCHANGED <<particle_vars, neighbor_vars, TDmethod, caller, err, call,
                cubes, steps, xver, ns_xver, L_xver, prev_vars, query_vars,
                sc_last>>

\* The cell of the particle thread t is at.
sc_cell(t) == pos_to_index(x[sc_next[t] + 1])

\* Thread t goes on to its next iteration.
NextIteration(t) ==
    IF sc_next[t] >= sc_last[t]
    THEN /\ sc_pc' = [sc_pc EXCEPT ![t] = "done"]
         /\ sc_next' = sc_next
    ELSE /\ sc_pc' = [sc_pc EXCEPT ![t] = "fetch"]
         /\ sc_next' = [sc_next EXCEPT ![t] = @ + 1]

\* Thread 1 runs its iterations up to the last ScatterRace ones, in order,
\* while thread 2 is not scheduled.
RunAlone ==
    /\ Running /\ pc = "allocate" /\ sc_pc[1] = "fetch"
    /\ sc_next[1] <= sc_last[1] - ScatterRace
    /\ LET hi == sc_last[1] - ScatterRace
           r == allocate_loop([k \in 1 .. hi + 1 |-> k - 1], sc_next[1] + 1,
                    hi + 1, x,
                    [num |-> grid_particles_num, parts |-> grid_particles,
                     bad_cell |-> FALSE, bad_slot |-> FALSE])
           completes ==
               /\ grid_particles_num' = r.num
               /\ grid_particles' = r.parts
               /\ UNCHANGED <<pc, done, grid_xver>>
       IN  /\ IF r.bad_cell THEN OutOfRange("grid_index", completes)
              ELSE IF r.bad_slot THEN OutOfRange("cell_slot", completes)
              ELSE completes /\ UNCHANGED <<crashed, build>>
           /\ sc_next' = [sc_next EXCEPT ![1] = hi + 1]
    /\ UNCHANGED <<sc_pc, sc_off>>
    /\ ScatterFrame

\* offset = ti.atomic_add(self.grid_particles_num[cell], 1): one step.  A
\* cell outside the grid is an access out of range; where it goes by, the
\* store that follows is out of range as well and the iteration ends.
AtomicAdd(t) ==
    /\ Running /\ pc = "allocate" /\ sc_pc[t] = "fetch"
    /\ t = 1 => sc_next[1] > sc_last[1] - ScatterRace
    /\ LET cell == sc_cell(t)
       IN  IF is_valid_cell(cell)
           THEN /\ sc_off' = [sc_off EXCEPT ![t] = grid_particles_num[cell]]
                /\ grid_particles_num' =
                       [grid_particles_num EXCEPT ![cell] = @ + 1]
                /\ sc_pc' = [sc_pc EXCEPT ![t] = "store"]
                /\ UNCHANGED <<grid_particles, sc_next, crashed, build, pc,
                               done, grid_xver>>
           ELSE /\ OutOfRange("grid_index",
                       UNCHANGED <<grid_vars, pc, done, grid_xver>>)
                /\ NextIteration(t)
                /\ UNCHANGED sc_off
    /\ ScatterFrame

\* self.grid_particles[cell, offset] = p
StoreSlot(t) ==
    /\ Running /\ pc = "allocate" /\ sc_pc[t] = "store"
    /\ LET cell == sc_cell(t)
           inside == sc_off[t] < particle_max_num_per_cell
           stores ==
               /\ grid_particles' =
                      [grid_particles EXCEPT ![cell] =
                          Store(@, sc_off[t], <<sc_next[t]>>,
                                particle_max_num_per_cell, 0)]
               /\ UNCHANGED <<grid_particles_num, pc, done, grid_xver>>
       IN  IF inside THEN stores /\ UNCHANGED <<crashed, build>>
           ELSE OutOfRange("cell_slot", stores)
    /\ NextIteration(t)
    /\ UNCHANGED sc_off
    /\ ScatterFrame

\* The kernel returns when every thread has finished its range.
ScatterReturn ==
    /\ Running /\ pc = "allocate"
    /\ \A t \in Threads : sc_pc[t] = "done"
    /\ pc' = Successor("allocate", caller, TDmethod)
    /\ done' = Append(done, "allocate")
    /\ grid_xver' = xver
    /\ UNCHANGED <<grid_vars, crashed, build, sc_next, sc_pc, sc_off>>
    /\ ScatterFrame

NextScatter ==
    \/ RunAlone
    \/ \E t \in Threads : AtomicAdd(t)
    \/ \E t \in Threads : StoreSlot(t)
    \/ ScatterReturn

SpecScatter == InitScatter /\ [][NextScatter]_vars

-----------------------------------------------------------------------------
(* Properties *)

LastPass == IF done = <<>> THEN "none" ELSE done[Len(done)]

\* search_neighbors has just completed: x still holds the positions it read.
AfterSearch == Running /\ LastPass = "search"

\* allocate_particles_to_grid has just completed.
AfterRebuild == Running /\ LastPass = "allocate"

Particles == 0 .. particle_num - 1

\* The slots of p_i's neighbour list below its count.
NeighborSlots(p_i) ==
    1 .. Min(particle_neighbors_num[p_i + 1], Len(particle_neighbors[p_i + 1]))

SquaredDistance(a, b) ==
    (a[1] - b[1]) * (a[1] - b[1]) + (a[2] - b[2]) * (a[2] - b[2])

C2_NeighborCap ==
    /\ crashed /= "neighbor_slot"
    /\ AfterSearch =>
          \A p \in Particles :
              particle_neighbors_num[p + 1] <= particle_max_num_neighbors

\* The slots (cell, j) below a cell's count that hold particle p.
SlotsHolding(p) ==
    { cj \in UNION { {c} \X (1 .. Min(grid_particles_num[c], Len(grid_particles[c]))) :
                       c \in Cells } :
        grid_particles[cj[1]][cj[2]] = p }

RECURSIVE SumCounts(_, _)
SumCounts(num, S) ==
    IF S = {} THEN 0
    ELSE LET c == CHOOSE c \in S : TRUE
         IN  num[c] + SumCounts(num, S \ {c})

\* C3: after the rebuild the counts of the cells add up to particle_num and
\* every particle is held by exactly one slot below a cell's count.
C3_RebuildPartition ==
    AfterRebuild =>
        /\ SumCounts(grid_particles_num, Cells) = particle_num
        /\ \A p \in Particles : Cardinality(SlotsHolding(p)) = 1

\* The samples of axis i of the cube sc: lower_corner + particle_radius +
\* k * spacing, k = 0, 1, ..., below the end of the box plus slack2 half
\* units.
AxisSamples(sc, i, slack2) ==
    LET step == IF sc.offset = 0 THEN particle_diameter ELSE sc.offset
        first == sc.lower_corner[i] + particle_radius
        last == sc.lower_corner[i] + sc.cube_size[i]
    IN  { first + k * step : k \in 0 .. (sc.cube_size[i] \div step) + 2 }
            \cap { s \in first .. last + slack2 : 2 * s < 2 * last + slack2 }

LatticeSize(sc) ==
    Cardinality(AxisSamples(sc, 1, ArangeEps2))
        * Cardinality(AxisSamples(sc, 2, ArangeEps2))

\* An add_cube call is made in this step.
AddCubeCalled == cubes' = cubes + 1

\* C4: an add_cube call whose lattice would take particle_num above 65536
\* fails with the capacity error and leaves particle_num, the particles'
\* attributes, the grid and the neighbour lists as they were; particle_num
\* stays within 0 .. 65536.
C4_CapacityKept ==
    /\ [][ (AddCubeCalled /\ particle_num + LatticeSize(call') > particle_max_num)
              => /\ err' = "capacity"
                 /\ UNCHANGED <<particle_vars, neighbor_vars, grid_vars>> ]_vars
    /\ [](particle_num \in 0 .. particle_max_num)

\* The call of the 256 x 256 cube has failed.
C4_Witness ==
    /\ err = "capacity"
    /\ particle_num + LatticeSize(call) > particle_max_num
    /\ pc = "idle"

\* enforce_boundary runs in this step.
EnforceRan == done' = Append(done, "enforce")

\* The particle of the example: [-0.001, 0.05] moving at [-1, 0].
ExamplePosition == << -((5 * PosUnit) \div 2), 125 * PosUnit >>
ExampleVelocity == << -PosUnit, 0 >>

\* What enforce_boundary does to particle p on axis i, in tenths: factor is
\* ten times the multiple of the depth d the particle ends inside the wall
\* at, and of the speed v it leaves with.
Bounced(p, i, factor) ==
    /\ x[p][i] < 0 =>
          /\ 10 * x'[p][i] = factor * (-x[p][i])
          /\ 10 * u'[p][i] = factor * (-u[p][i])
    /\ x[p][i] > world[i] =>
          /\ 10 * (world[i] - x'[p][i]) = factor * (x[p][i] - world[i])
          /\ 10 * (-u'[p][i]) = factor * u[p][i]
    /\ (x[p][i] >= 0 /\ x[p][i] <= world[i]) =>
          /\ x'[p][i] = x[p][i]
          /\ u'[p][i] = u[p][i]

\* C5 as the specification states it: a fluid or soil particle outside a
\* wall by depth d with normal velocity -v ends (1 + c_f) * d inside that
\* wall with normal velocity +(1 + c_f) * v, the components on an axis with
\* no wall crossed unchanged; the particle at [-0.001, 0.05] with velocity
\* [-1, 0] ends at [0.0017, 0.05] with velocity [1.7, 0].
C5_BounceAsStated ==
    [][ EnforceRan =>
          \A p \in 1 .. particle_num :
              material[p] < material_dummy =>
                  /\ \A i \in 1 .. dim : Bounced(p, i, 10 + c_f_tenths)
                  /\ (x[p] = ExamplePosition /\ u[p] = ExampleVelocity) =>
                        /\ x'[p] = << (17 * PosUnit) \div 4, 125 * PosUnit >>
                        /\ u'[p] = << (17 * PosUnit) \div 10, 0 >> ]_vars

\* C5: a fluid or soil particle outside a wall by depth d with normal
\* velocity -v ends c_f * d inside that wall with normal velocity +c_f * v,
\* the components on an axis with no wall crossed unchanged; the particle
\* at [-0.001, 0.05] with velocity [-1, 0] ends at [0.0007, 0.05] with
\* velocity [0.7, 0].
C5_Bounce ==
    [][ EnforceRan =>
          \A p \in 1 .. particle_num :
              material[p] < material_dummy =>
                  /\ \A i \in 1 .. dim : Bounced(p, i, c_f_tenths)
                  /\ (x[p] = ExamplePosition /\ u[p] = ExampleVelocity) =>
                        /\ x'[p] = << (7 * PosUnit) \div 4, 125 * PosUnit >>
                        /\ u'[p] = << (7 * PosUnit) \div 10, 0 >> ]_vars

\* enforce_boundary has just corrected the particle of the example.
C5_Witness ==
    /\ LastPass = "enforce"
    /\ steps = 1
    /\ call.lower_corner = << -((15 * PosUnit) \div 2), 120 * PosUnit >>
    /\ x[particle_num] = << (7 * PosUnit) \div 4, 125 * PosUnit >>
    /\ u[particle_num] = << (7 * PosUnit) \div 10, 0 >>

\* The particles in the slots of cell c below the count n.
SlotSet(parts, c, n) ==
    { parts[c][j] : j \in 1 .. Min(n, Len(parts[c])) }

\* C6: a rebuild that follows a completed rebuild, particle_num and the
\* positions being the same, gives every cell the count it had and the
\* same set of particles in its slots below the count.
C6_RebuildIdempotent ==
    [][ (done' = Append(done, "allocate") /\ crashed' = "no"
           /\ prev_xver = xver /\ grid_xver' = xver)
          => \A c \in Cells :
                /\ grid_particles_num'[c] = prev_num[c]
                /\ SlotSet(grid_particles', c, grid_particles_num'[c])
                       = SlotSet(grid_particles, c, prev_num[c]) ]_vars

\* The passes of step in the order the specification names them.
StepPasses(td) ==
    <<"grid_fill", "allocate", "search", "cal_L">>
        \o (IF td = 1 THEN <<"substep">> ELSE <<>>)
        \o <<"enforce">>

IsPrefix(a, b) == Len(a) <= Len(b) /\ a = SubSeq(b, 1, Len(a))

\* The passes done so far, the clearing of the neighbour lists left out.
NamedPasses == SelectSeq(done, LAMBDA s : s /= "neighbors_fill")

\* C7: the passes of a step run one after the other in the order grid
\* clear, grid scatter, neighbour search, cal_L, the substep exactly when
\* TDmethod is 1, enforce_boundary; cal_L runs on the positions the grid and
\* the neighbour lists were built from.
C7_StepOrder ==
    (caller = "step" /\ Running) =>
        /\ IsPrefix(NamedPasses, StepPasses(TDmethod))
        /\ pc = "idle" => NamedPasses = StepPasses(TDmethod)
        /\ LastPass = "cal_L" => (L_xver = ns_xver /\ ns_xver = grid_xver)

\* A step with the substep has completed and has moved a particle.
C7_Witness ==
    /\ caller = "step" /\ Running /\ pc = "idle"
    /\ TDmethod = 1
    /\ NamedPasses = StepPasses(1)
    /\ xver > L_xver

\* C8: after search_neighbors a particle of material >= 10 has neighbour
\* count 0 and an empty neighbour list.
C8_BoundaryNeverQueries ==
    AfterSearch =>
        \A p \in Particles :
            material[p + 1] >= material_dummy =>
                /\ particle_neighbors_num[p + 1] = 0
                /\ particle_neighbors[p + 1] = <<>>

\* A successful add_cube call is made in this step.
AddCubeSucceeded == AddCubeCalled /\ err' = "none"

\* The cube of the example: lower_corner [0, 0], cube_size [0.01, 0.01],
\* offset 0.01.
ExampleCube ==
    Cube(<<0, 0>>, <<25 * PosUnit, 25 * PosUnit>>, material_fluid, <<>>,
         25 * PosUnit)

\* add_cube appends the lattice whose axis samples end slack2 half units
\* beyond the box, and touches no older particle.
AppendsLattice(slack2) ==
    LET sc == call'
        S1 == AxisSamples(sc, 1, slack2)
        S2 == AxisSamples(sc, 2, slack2)
        old == particle_num
        new == particle_num'
    IN  /\ new = old + Cardinality(S1) * Cardinality(S2)
        /\ Len(x') = new /\ Len(u') = new
        /\ Len(material') = new /\ Len(density') = new
        /\ { x'[p] : p \in old + 1 .. new } = S1 \X S2
        /\ \A p \in 1 .. old :
              /\ x'[p] = x[p] /\ u'[p] = u[p]
              /\ material'[p] = material[p] /\ density'[p] = density[p]
        /\ sc = ExampleCube =>
              /\ new = old + 1
              /\ x'[new] = << 5 * PosUnit, 5 * PosUnit >>

\* C9 as the specification states it: a successful add_cube raises
\* particle_num by the product of the axes' sample counts, the samples of an
\* axis being lower_corner + particle_radius + k * spacing not exceeding
\* lower_corner + size; the new particles are the Cartesian product of the
\* samples; no older particle is changed; the example adds one particle at
\* [0.002, 0.002].
C9_LatticeAsStated == [][ AddCubeSucceeded => AppendsLattice(1) ]_vars

\* C9: as stated, the samples of an axis being those below
\* lower_corner + size + 1e-5.
C9_Lattice == [][ AddCubeSucceeded => AppendsLattice(ArangeEps2) ]_vars

\* The call of the example has added its one particle.
C9_Witness ==
    /\ call = ExampleCube /\ cubes = 1 /\ err = "none"
    /\ particle_num = Len(rangeary_positions(Len(rangeary_cubes))) + 1
    /\ x[particle_num] = << 5 * PosUnit, 5 * PosUnit >>

\* floor((pos - domain_min) / grid_size), per axis.
CellByFloor(pos) ==
    << (pos[1] - bound[1][1]) \div grid_size,
       (pos[2] - bound[1][2]) \div grid_size >>

InPaddedDomain(pos) ==
    \A i \in 1 .. dim : pos[i] >= bound[1][i] /\ pos[i] < bound[2][i]

\* C10: pos_to_index(pos) is floor((pos - domain_min) / grid_size) on every
\* axis, and a position outside the padded domain gets a cell that
\* is_valid_cell refuses.
C10_CellIsFloor ==
    qcell /= <<>> =>
        /\ qcell = CellByFloor(qpos)
        /\ ~InPaddedDomain(qpos) => ~is_valid_cell(qcell)

\* The particles whose position is in cell c.
ScatteredInto(c) == { p \in Particles : pos_to_index(x[p + 1]) = c }

\* C11: whatever the interleaving of the iterations of the scatter, two
\* iterations on the same cell never hold the same slot, and when the pass
\* has completed the count of every cell is the number of particles
\* scattered into it and every particle sits in one slot of its cell below
\* the count: no write is lost.
C11_AtomicScatter ==
    /\ \A t1, t2 \in Threads :
          (t1 /= t2 /\ sc_pc[t1] = "store" /\ sc_pc[t2] = "store"
             /\ sc_cell(t1) = sc_cell(t2)) => sc_off[t1] /= sc_off[t2]
    /\ AfterRebuild =>
          /\ \A c \in Cells :
                grid_particles_num[c] = Cardinality(ScatteredInto(c))
          /\ \A p \in Particles :
                /\ Cardinality(SlotsHolding(p)) = 1
                /\ \A cj \in SlotsHolding(p) : cj[1] = pos_to_index(x[p + 1])

\* The position lies in a cell of the grid.
InGrid(pos) ==
    \A i \in 1 .. dim :
        /\ pos[i] >= bound[1][i]
        /\ pos[i] < bound[1][i] + grid_num[i] * grid_size

\* The other particles strictly closer to p_i than support_radius.
InRange(p_i) ==
    { p_j \in Particles \ {p_i} :
        SquaredDistance(x[p_i + 1], x[p_j + 1])
            < support_radius * support_radius }

\* C12: after the rebuild and search_neighbors, a non-dummy particle p_i
\* inside the grid with at most 100 other particles within support_radius
\* has every one of them in its neighbour list, exactly once.
C12_SearchComplete ==
    AfterSearch =>
        \A p_i \in Particles :
            (/\ material[p_i + 1] /= material_dummy
             /\ InGrid(x[p_i + 1])
             /\ Cardinality(InRange(p_i)) <= particle_max_num_neighbors)
            => \A p_j \in InRange(p_i) :
                  Cardinality({ j \in NeighborSlots(p_i) :
                                  particle_neighbors[p_i + 1][j] = p_j }) = 1

\* The position lies in the domain [0, world] on every axis.
InDomain(pos) == \A i \in 1 .. dim : pos[i] >= 0 /\ pos[i] <= world[i]

\* C13: when enforce_boundary returns, every non-dummy particle lies in the
\* domain, wherever it was before; a dummy particle and a particle that was
\* in the domain keep their position and velocity.
C13_AllInside ==
    [][ EnforceRan =>
          \A p \in 1 .. particle_num :
              /\ material[p] /= material_dummy => InDomain(x'[p])
              /\ (material[p] = material_dummy \/ InDomain(x[p])) =>
                    (x'[p] = x[p] /\ u'[p] = u[p]) ]_vars

=============================================================================
